---- MODULE Spec2Model ----
(***************************************************************************)
(* A model of DataComparator (src/src/comparison.py): compare() and the    *)
(* helpers it calls.  Text is a sequence of code points, so that Python's  *)
(* string order, "|".join and str() are computed and not assumed.  A       *)
(* value is a tagged record: Python text, or a Python int (the tests pass  *)
(* non-text values; str() coerces them).  A row (a dict) is a function     *)
(* from column names to values.                                            *)
(***************************************************************************)
EXTENDS Integers, Sequences, FiniteSets, TLC

VARIABLES
    config,                  \* the config dict the comparator is built from
    key_columns,             \* self.key_columns
    fail_on_duplicate_keys,  \* self.fail_on_duplicate_keys
    old_data, new_data,      \* the arguments of compare
    pc,                      \* position inside compare
    side,                    \* which dataset _create_row_lookup is indexing
    i,                       \* index of the next row of the for loop (1-based)
    lookup, columns, duplicates, duplicate_keys,  \* locals of _create_row_lookup
    old_rows, old_columns, old_duplicates,        \* locals of compare
    new_rows, new_columns, new_duplicates,
    results, all_duplicates, \* the returned pair
    error,                   \* the raised ValueError, if any
    format_call,             \* the arguments of a call of _format_compared_row
    formatted,               \* what that call returns
    other,                   \* a second call of compare on the same comparator
    config_file,             \* the file at the path given to load_config
    loaded,                  \* what the latest load_config gave back
    example_pc               \* where create_example_config is

vars == <<config, key_columns, fail_on_duplicate_keys, old_data, new_data, pc, side, i,
          lookup, columns, duplicates, duplicate_keys,
          old_rows, old_columns, old_duplicates,
          new_rows, new_columns, new_duplicates,
          results, all_duplicates, error, format_call, formatted, other,
          config_file, loaded, example_pc>>

(***************************************************************************)
(* Bounds of the model.                                                    *)
(***************************************************************************)
\* rows of old_data and new_data together, in Spec
MaxRows == 3
\* rows of old_data and new_data together, in SpecCols
MaxColsRows == 3
\* rows of old_data and new_data together, in SpecKeys
MaxKeyRows == 3
\* rows of the one dataset compared with itself, in SpecSame
MaxSameRows == 3
\* rows of old_data and new_data together, in SpecPipe
MaxPipeRows == 3
\* rows of the four datasets of the two calls together, in SpecTwo
MaxTwoRows == 3
\* rows of old_data and new_data together, in SpecDefault
MaxDefaultRows == 3
\* entries of the changed_columns argument, in SpecFormat
MaxChangedColumns == 2
\* rows of old_data and new_data together, in SpecDup
MaxDupRows == 4

(***************************************************************************)
(* Text: sequences of code points.                                         *)
(***************************************************************************)
\* "|", the separator of _generate_row_key
Pipe == 124

EmptyText == <<>>
T_ID == <<73, 68>>
T_Age == <<65, 103, 101>>
T_Name == <<78, 97, 109, 101>>
T_Notes == <<78, 111, 116, 101, 115>>
T_LastLogin == <<76, 97, 115, 116, 32, 76, 111, 103, 105, 110>>
T_1 == <<49>>
T_2 == <<50>>
T_5 == <<53>>
T_6 == <<54>>
T_A == <<65>>
T_12 == <<49, 50>>
T_1Pipe == <<49, Pipe>>
T_Pipe == <<Pipe>>
T_RowKey == <<82, 111, 119, 32, 75, 101, 121>>
T_Status == <<83, 116, 97, 116, 117, 115>>
T_ChangedColumns == <<67, 104, 97, 110, 103, 101, 100, 32, 67, 111, 108, 117, 109, 110, 115>>
T_OldSuffix == <<32, 40, 79, 108, 100, 41>>
T_NewSuffix == <<32, 40, 78, 101, 119, 41>>
T_CommaSpace == <<44, 32>>

\* RowStatus
ADDED == <<65, 100, 100, 101, 100>>
REMOVED == <<82, 101, 109, 111, 118, 101, 100>>
CHANGED == <<67, 104, 97, 110, 103, 101, 100>>

Range(s) == {s[k] : k \in DOMAIN s}

\* Python's < on str: lexicographic on code points
LexLess(a, b) ==
    \E k \in 1..(Len(a) + 1) :
        /\ k <= Len(b)
        /\ \A j \in 1..(k - 1) : a[j] = b[j]
        /\ (k = Len(a) + 1 \/ a[k] < b[k])

\* sorted(S) for a set of str: the element with r - 1 smaller ones comes r-th
Sorted(S) ==
    [r \in 1..Cardinality(S) |->
        CHOOSE x \in S : Cardinality({y \in S : LexLess(y, x)}) = r - 1]

\* sep.join(parts)
RECURSIVE Join(_, _)
Join(parts, sep) ==
    IF Len(parts) = 0 THEN EmptyText
    ELSE IF Len(parts) = 1 THEN parts[1]
    ELSE parts[1] \o sep \o Join(Tail(parts), sep)

(***************************************************************************)
(* Values.                                                                 *)
(***************************************************************************)
StrVal(t) == [kind |-> "str", text |-> t, num |-> 0]
IntVal(n) == [kind |-> "int", text |-> EmptyText, num |-> n]

\* str(n) for an int
RECURSIVE Decimal(_)
Decimal(n) ==
    IF n < 0 THEN <<45>> \o Decimal(0 - n)
    ELSE IF n < 10 THEN <<48 + n>>
    ELSE Decimal(n \div 10) \o <<48 + (n % 10)>>

\* str(v)
Str(v) == IF v.kind = "int" THEN Decimal(v.num) ELSE v.text

\* a slip: row.get(col) without the default, which gives None for a missing column
RowGetNoDefault(row, col) ==
    IF col \in DOMAIN row THEN row[col] ELSE [kind |-> "none", text |-> <<>>, num |-> 0]

\* row.get(col, "")
RowGet(row, col) == IF col \in DOMAIN row THEN row[col] ELSE StrVal(EmptyText)

(***************************************************************************)
(* _generate_row_key and _generate_row_digest.                             *)
(***************************************************************************)
\* a slip: only the first absent key column is reported
MissingKeysFirstOnly(row) ==
    LET absent == SelectSeq(key_columns, LAMBDA k : k \notin DOMAIN row)
    IN  IF absent = <<>> THEN <<>> ELSE <<Head(absent)>>

\* [key for key in self.key_columns if key not in dataset[0]]
MissingKeys(row) == SelectSeq(key_columns, LAMBDA k : k \notin DOMAIN row)

\* a slip: the key values joined in the order of the column names
GenerateRowKeyByName(row) ==
    LET names == Sorted(Range(key_columns))
    IN  Join([k \in DOMAIN names |-> Str(row[names[k]])], <<Pipe>>)

\* key columns of row all present: the joined key
GenerateRowKey(row) ==
    Join([k \in DOMAIN key_columns |-> Str(row[key_columns[k]])], <<Pipe>>)

\* one lower-case hexadecimal digit
HexDigit(d) == IF d < 10 THEN 48 + d ELSE 87 + d

\* \uXXXX of a 16-bit code unit
UnicodeEscape(n) ==
    <<92, 117, HexDigit(n \div 4096), HexDigit((n \div 256) % 16),
      HexDigit((n \div 16) % 16), HexDigit(n % 16)>>

\* json.dumps (ensure_ascii) of one character: '"' and '\' behind a
\* backslash, the short escapes \b \t \n \f \r, a character from space to
\* '~' as it is, any other as \uXXXX, above U+FFFF as a surrogate pair
JsonEscapeChar(c) ==
    IF c \in {34, 92} THEN <<92, c>>
    ELSE IF c = 8 THEN <<92, 98>>
    ELSE IF c = 9 THEN <<92, 116>>
    ELSE IF c = 10 THEN <<92, 110>>
    ELSE IF c = 12 THEN <<92, 102>>
    ELSE IF c = 13 THEN <<92, 114>>
    ELSE IF c >= 32 /\ c <= 126 THEN <<c>>
    ELSE IF c < 65536 THEN UnicodeEscape(c)
    ELSE UnicodeEscape(55296 + ((c - 65536) \div 1024))
            \o UnicodeEscape(56320 + ((c - 65536) % 1024))

\* json.dumps of a str without its quotes
RECURSIVE JsonEscape(_)
JsonEscape(t) ==
    IF t = <<>> THEN <<>>
    ELSE JsonEscapeChar(t[1]) \o JsonEscape(Tail(t))

JsonString(t) == <<34>> \o JsonEscape(t) \o <<34>>

JsonValue(v) == IF v.kind = "int" THEN Decimal(v.num) ELSE JsonString(v.text)

\* json.dumps(row, sort_keys=True)
JsonDumps(row) ==
    LET ks == Sorted(DOMAIN row)
        item(k) == JsonString(ks[k]) \o <<58, 32>> \o JsonValue(row[ks[k]])
    IN  <<123>> \o Join([k \in DOMAIN ks |-> item(k)], T_CommaSpace) \o <<125>>

\* SHA-256 is taken to be collision-free: the digest is the text it hashes
GenerateRowDigest(row) == JsonDumps(row)

(***************************************************************************)
(* _format_compared_row.  A formatted row is a dict in insertion order: a  *)
(* sequence of <<field, value>> pairs.                                     *)
(***************************************************************************)
DictHas(d, f) == \E k \in DOMAIN d : d[k][1] = f

DictGet(d, f) == d[CHOOSE k \in DOMAIN d : d[k][1] = f][2]

DictFields(d) == [k \in DOMAIN d |-> d[k][1]]

\* d[f] = v
DictSet(d, f, v) ==
    IF DictHas(d, f)
    THEN [k \in DOMAIN d |-> IF d[k][1] = f THEN <<f, v>> ELSE d[k]]
    ELSE Append(d, <<f, v>>)

OldField(col) == col \o T_OldSuffix
NewField(col) == col \o T_NewSuffix

\* a slip: the (New) field written before the (Old) field
RECURSIVE FormatColumnsNewFirst(_, _, _, _)
FormatColumnsNewFirst(d, cols, old_values, new_values) ==
    IF cols = <<>> THEN d
    ELSE LET c  == Head(cols)
             d1 == DictSet(d, NewField(c), RowGet(new_values, c))
             d2 == DictSet(d1, OldField(c), RowGet(old_values, c))
         IN  FormatColumnsNewFirst(d2, Tail(cols), old_values, new_values)

\* the loop over sorted_columns
RECURSIVE FormatColumns(_, _, _, _)
FormatColumns(d, cols, old_values, new_values) ==
    IF cols = <<>> THEN d
    ELSE LET c  == Head(cols)
             d1 == DictSet(d, OldField(c), RowGet(old_values, c))
             d2 == DictSet(d1, NewField(c), RowGet(new_values, c))
         IN  FormatColumns(d2, Tail(cols), old_values, new_values)

FormatComparedRow(row_key, status, changed_columns, old_values, new_values) ==
    LET sorted_columns == Sorted(DOMAIN old_values \cup DOMAIN new_values)
        row_data == << <<T_RowKey, StrVal(row_key)>>,
                       <<T_Status, StrVal(status)>>,
                       <<T_ChangedColumns, StrVal(Join(changed_columns, T_CommaSpace))>> >>
    IN  FormatColumns(row_data, sorted_columns, old_values, new_values)

(***************************************************************************)
(* The loop body of compare, for one row key.                              *)
(***************************************************************************)
Reverse(s) == [k \in DOMAIN s |-> s[Len(s) + 1 - k]]

\* a slip: the columns sorted in descending order
NonKeyColumnsReversed(ocols, ncols) ==
    Reverse(Sorted((ocols \cup ncols) \ Range(key_columns)))

\* sorted(all_columns - set(self.key_columns))
NonKeyColumns(ocols, ncols) == Sorted((ocols \cup ncols) \ Range(key_columns))

EmptyValues(non_key_columns) ==
    [c \in Range(non_key_columns) |-> StrVal(EmptyText)]

\* a slip: only the columns the row has are recorded
RowValuesOwn(row, non_key_columns) ==
    [c \in Range(non_key_columns) \cap DOMAIN row |-> row[c]]

\* {col: row.get(col, "") for col in non_key_columns}
RowValues(row, non_key_columns) ==
    [c \in Range(non_key_columns) |-> RowGet(row, c)]

\* a slip: old_values read from the new row as well
AddedRowCopied(row_key, new_row, non_key_columns) ==
    FormatComparedRow(row_key, ADDED, <<>>,
                      RowValues(new_row, non_key_columns),
                      RowValues(new_row, non_key_columns))

AddedRow(row_key, new_row, non_key_columns) ==
    FormatComparedRow(row_key, ADDED, <<>>,
                      EmptyValues(non_key_columns),
                      RowValues(new_row, non_key_columns))

\* a slip: new_values read from the old row as well
RemovedRowCopied(row_key, old_row, non_key_columns) ==
    FormatComparedRow(row_key, REMOVED, <<>>,
                      RowValues(old_row, non_key_columns),
                      RowValues(old_row, non_key_columns))

RemovedRow(row_key, old_row, non_key_columns) ==
    FormatComparedRow(row_key, REMOVED, <<>>,
                      RowValues(old_row, non_key_columns),
                      EmptyValues(non_key_columns))

\* a slip: the values compared without str()
ChangedColumnsRaw(old_row, new_row, non_key_columns) ==
    SelectSeq(non_key_columns,
              LAMBDA c : RowGet(old_row, c) # RowGet(new_row, c))

\* a slip: only the columns of the old row are compared
ChangedColumnsOfOldRow(old_row, new_row, non_key_columns) ==
    SelectSeq(non_key_columns,
              LAMBDA c : /\ c \in DOMAIN old_row
                         /\ Str(RowGet(old_row, c)) # Str(RowGet(new_row, c)))

\* the columns the inner for loop appends to changed_columns
ChangedColumnsOf(old_row, new_row, non_key_columns) ==
    SelectSeq(non_key_columns,
              LAMBDA c : Str(RowGet(old_row, c)) # Str(RowGet(new_row, c)))

\* a slip: no digest short cut and no "if changed_columns" guard
ChangedRowAlways(row_key, old_entry, new_entry, non_key_columns) ==
    << FormatComparedRow(row_key, CHANGED,
                         ChangedColumnsOf(old_entry.row_data, new_entry.row_data,
                                          non_key_columns),
                         RowValues(old_entry.row_data, non_key_columns),
                         RowValues(new_entry.row_data, non_key_columns)) >>

\* a slip: no "if changed_columns" guard after the digest short cut
ChangedRowUnguarded(row_key, old_entry, new_entry, non_key_columns) ==
    IF old_entry.row_digest = new_entry.row_digest THEN <<>>
    ELSE << FormatComparedRow(row_key, CHANGED,
                              ChangedColumnsOf(old_entry.row_data, new_entry.row_data,
                                               non_key_columns),
                              RowValues(old_entry.row_data, non_key_columns),
                              RowValues(new_entry.row_data, non_key_columns)) >>

\* the else branch: a key of both lookups gives no result or one Changed result
ChangedRow(row_key, old_entry, new_entry, non_key_columns) ==
    IF old_entry.row_digest = new_entry.row_digest THEN <<>>
    ELSE LET changed_columns ==
                 ChangedColumnsOf(old_entry.row_data, new_entry.row_data,
                                  non_key_columns)
         IN  IF changed_columns = <<>> THEN <<>>
             ELSE << FormatComparedRow(row_key, CHANGED, changed_columns,
                                       RowValues(old_entry.row_data, non_key_columns),
                                       RowValues(new_entry.row_data, non_key_columns)) >>

\* what one iteration of "for row_key in sorted(all_row_keys)" appends
ResultsFor(row_key, orows, nrows, non_key_columns) ==
    IF row_key \notin DOMAIN orows
    THEN << AddedRow(row_key, nrows[row_key].row_data, non_key_columns) >>
    ELSE IF row_key \notin DOMAIN nrows
    THEN << RemovedRow(row_key, orows[row_key].row_data, non_key_columns) >>
    ELSE ChangedRow(row_key, orows[row_key], nrows[row_key], non_key_columns)

RECURSIVE ResultsOver(_, _, _, _)
ResultsOver(keys, orows, nrows, non_key_columns) ==
    IF keys = <<>> THEN <<>>
    ELSE ResultsFor(Head(keys), orows, nrows, non_key_columns)
         \o ResultsOver(Tail(keys), orows, nrows, non_key_columns)

\* a slip: the keys of the old lookup, then the keys only the new one has
SortedRowKeysOldFirst(orows, nrows) ==
    Sorted(DOMAIN orows) \o Sorted(DOMAIN nrows \ DOMAIN orows)

\* sorted(all_row_keys)
SortedRowKeys(orows, nrows) == Sorted(DOMAIN orows \cup DOMAIN nrows)

\* lines 85-147 of compare
CompareResults(orows, nrows, ocols, ncols) ==
    ResultsOver(SortedRowKeys(orows, nrows), orows, nrows,
                NonKeyColumns(ocols, ncols))

(***************************************************************************)
(* The errors compare raises (all of them ValueError, told apart by their  *)
(* message).                                                               *)
(***************************************************************************)
NoError == [kind |-> "none", dataset |-> "", keys |-> <<>>]
\* "Missing key columns in {name} dataset: {missing_keys}"
MissingKeyColumns(name, missing) ==
    [kind |-> "missing_key_columns", dataset |-> name, keys |-> missing]
\* "Key column '{key_col}' not found in row"
KeyColumnNotFound(key_col) ==
    [kind |-> "key_column_not_found", dataset |-> "", keys |-> <<key_col>>]
\* "Duplicate row key found: {row_key}"
DuplicateRowKey(row_key) ==
    [kind |-> "duplicate_row_key", dataset |-> "", keys |-> <<row_key>>]

(***************************************************************************)
(* Actions.                                                                *)
(***************************************************************************)
EmptyLookup == [k \in {} |-> 0]

self == <<key_columns, fail_on_duplicate_keys>>
\* no call of _format_compared_row apart from compare
NoCall == [called |-> FALSE]
FormatIdle == format_call = NoCall /\ formatted = <<>>
\* no second call of compare
NoFrame == [pc |-> "idle"]
\* no file at the path
NoFile == [exists |-> FALSE]
\* load_config has not returned
NotLoaded == [kind |-> "none"]
\* neither load_config nor create_example_config is called
LoaderIdle == config_file = NoFile /\ loaded = NotLoaded /\ example_pc = "idle"
loader == <<config_file, loaded, example_pc>>

\* the state of the calls that are made apart from compare
apart == <<format_call, formatted, other, config_file, loaded, example_pc>>
inputs == <<old_data, new_data>>
index_locals == <<lookup, columns, duplicates, duplicate_keys>>
old_index == <<old_rows, old_columns, old_duplicates>>
new_index == <<new_rows, new_columns, new_duplicates>>
returned == <<results, all_duplicates>>

\* the first dataset, in the order of _validate_key_columns, whose first row
\* lacks a key column ("none" when there is none)
FirstInvalid ==
    IF old_data # <<>> /\ MissingKeys(old_data[1]) # <<>> THEN "first"
    ELSE IF new_data # <<>> /\ MissingKeys(new_data[1]) # <<>> THEN "second"
    ELSE "none"

\* _validate_key_columns returns
ValidatePass ==
    /\ pc = "validate"
    /\ FirstInvalid = "none"
    /\ pc' = "index"
    /\ UNCHANGED <<config, self, inputs, apart, side, i, index_locals, old_index, new_index,
                   returned, error>>

\* a slip: dataset[0] read without the emptiness checks, which raises when the
\* datasets are empty
ValidateRaiseOnEmpty ==
    /\ pc = "validate"
    /\ FirstInvalid # "none" \/ (old_data = <<>> /\ new_data = <<>>)
    /\ error' = IF old_data = <<>> /\ new_data = <<>>
                THEN MissingKeyColumns("first", key_columns)
                ELSE MissingKeyColumns(FirstInvalid,
                         MissingKeys(IF FirstInvalid = "first" THEN old_data[1]
                                     ELSE new_data[1]))
    /\ pc' = "error"
    /\ UNCHANGED <<config, self, inputs, apart, side, i, index_locals, old_index, new_index,
                   returned>>

\* _validate_key_columns raises
ValidateRaise ==
    /\ pc = "validate"
    /\ FirstInvalid # "none"
    /\ error' = MissingKeyColumns(FirstInvalid,
                    MissingKeys(IF FirstInvalid = "first" THEN old_data[1]
                                ELSE new_data[1]))
    /\ pc' = "error"
    /\ UNCHANGED <<config, self, inputs, apart, side, i, index_locals, old_index, new_index,
                   returned>>

data == IF side = "old" THEN old_data ELSE new_data

AtRow == pc = "index" /\ i <= Len(data)

\* a slip: a row without its key columns is skipped instead of failing compare
IndexKeyMissingSkipped ==
    /\ pc = "index" /\ i <= Len(IF side = "old" THEN old_data ELSE new_data)
    /\ MissingKeys((IF side = "old" THEN old_data ELSE new_data)[i]) # <<>>
    /\ i' = i + 1
    /\ UNCHANGED <<config, self, inputs, apart, pc, side, index_locals, old_index, new_index,
                   returned, error>>

\* _generate_row_key raises: the row lacks a key column
IndexKeyMissing ==
    /\ AtRow
    /\ MissingKeys(data[i]) # <<>>
    /\ error' = KeyColumnNotFound(Head(MissingKeys(data[i])))
    /\ pc' = "error"
    /\ UNCHANGED <<config, self, inputs, apart, side, i, index_locals, old_index, new_index,
                   returned>>

\* if row_key in duplicate_keys
IndexKnownDuplicate ==
    /\ AtRow
    /\ MissingKeys(data[i]) = <<>>
    /\ GenerateRowKey(data[i]) \in duplicate_keys
    /\ duplicates' = Append(duplicates, data[i])
    /\ i' = i + 1
    /\ UNCHANGED <<config, self, inputs, apart, pc, side, lookup, columns, duplicate_keys,
                   old_index, new_index, returned, error>>

\* a slip: the flag ignored, a collision never raises
RaisesOnCollisionNever == FALSE

\* a slip: the flag ignored, a collision always raises
RaisesOnCollisionAlways == TRUE

\* if self.fail_on_duplicate_keys
RaisesOnCollision == fail_on_duplicate_keys

\* if row_key in lookup, fail_on_duplicate_keys set
IndexCollisionRaise ==
    /\ AtRow
    /\ MissingKeys(data[i]) = <<>>
    /\ GenerateRowKey(data[i]) \notin duplicate_keys
    /\ GenerateRowKey(data[i]) \in DOMAIN lookup
    /\ RaisesOnCollision
    /\ error' = DuplicateRowKey(GenerateRowKey(data[i]))
    /\ pc' = "error"
    /\ UNCHANGED <<config, self, inputs, apart, side, i, index_locals, old_index, new_index,
                   returned>>

\* a slip: the popped original is dropped
MoveToDuplicatesNoOriginal(row_key, row) ==
    /\ duplicates' = Append(duplicates, row)
    /\ lookup' = [k \in DOMAIN lookup \ {row_key} |-> lookup[k]]
    /\ duplicate_keys' = duplicate_keys \cup {row_key}

\* a slip: the current row appended before the popped original
MoveToDuplicatesSwapped(row_key, row) ==
    /\ duplicates' = duplicates \o <<row, lookup[row_key].row_data>>
    /\ lookup' = [k \in DOMAIN lookup \ {row_key} |-> lookup[k]]
    /\ duplicate_keys' = duplicate_keys \cup {row_key}

\* a slip: the colliding key is not flagged
MoveToDuplicatesUnflagged(row_key, row) ==
    /\ duplicates' = duplicates \o <<lookup[row_key].row_data, row>>
    /\ lookup' = [k \in DOMAIN lookup \ {row_key} |-> lookup[k]]
    /\ duplicate_keys' = duplicate_keys

\* a slip: the original is copied to the duplicates but stays in the lookup
MoveToDuplicatesKept(row_key, row) ==
    /\ duplicates' = duplicates \o <<lookup[row_key].row_data, row>>
    /\ lookup' = lookup
    /\ duplicate_keys' = duplicate_keys \cup {row_key}

\* lookup.pop(row_key), and both rows appended to duplicates
MoveToDuplicates(row_key, row) ==
    /\ duplicates' = duplicates \o <<lookup[row_key].row_data, row>>
    /\ lookup' = [k \in DOMAIN lookup \ {row_key} |-> lookup[k]]
    /\ duplicate_keys' = duplicate_keys \cup {row_key}

\* if row_key in lookup, fail_on_duplicate_keys not set
IndexCollisionMove ==
    /\ AtRow
    /\ MissingKeys(data[i]) = <<>>
    /\ GenerateRowKey(data[i]) \notin duplicate_keys
    /\ GenerateRowKey(data[i]) \in DOMAIN lookup
    /\ ~RaisesOnCollision
    /\ MoveToDuplicates(GenerateRowKey(data[i]), data[i])
    /\ i' = i + 1
    /\ UNCHANGED <<config, self, inputs, apart, pc, side, columns, old_index, new_index,
                   returned, error>>

\* a slip: the observed columns are those of the first row only
ObservedColumnsOfFirstRow(cols, row) == IF cols = {} THEN DOMAIN row ELSE cols

\* columns.update(row.keys())
ObservedColumns(cols, row) == cols \cup DOMAIN row

\* a row with a new key
IndexInsert ==
    /\ AtRow
    /\ MissingKeys(data[i]) = <<>>
    /\ GenerateRowKey(data[i]) \notin duplicate_keys
    /\ GenerateRowKey(data[i]) \notin DOMAIN lookup
    /\ columns' = ObservedColumns(columns, data[i])
    /\ lookup' = [k \in DOMAIN lookup \cup {GenerateRowKey(data[i])} |->
                    IF k = GenerateRowKey(data[i])
                    THEN [row_digest |-> GenerateRowDigest(data[i]),
                          row_data |-> data[i]]
                    ELSE lookup[k]]
    /\ i' = i + 1
    /\ UNCHANGED <<config, self, inputs, apart, pc, side, duplicates, duplicate_keys,
                   old_index, new_index, returned, error>>

\* _create_row_lookup(old_data) returns
IndexOldReturn ==
    /\ pc = "index" /\ side = "old" /\ i > Len(old_data)
    /\ old_rows' = lookup /\ old_columns' = columns /\ old_duplicates' = duplicates
    /\ side' = "new" /\ i' = 1
    /\ lookup' = EmptyLookup /\ columns' = {} /\ duplicates' = <<>>
    /\ duplicate_keys' = {}
    /\ UNCHANGED <<config, self, inputs, apart, pc, new_index, returned, error>>

\* _create_row_lookup(new_data) returns
IndexNewReturn ==
    /\ pc = "index" /\ side = "new" /\ i > Len(new_data)
    /\ new_rows' = lookup /\ new_columns' = columns /\ new_duplicates' = duplicates
    /\ pc' = "diff"
    /\ UNCHANGED <<config, self, inputs, apart, side, i, index_locals, old_index, returned,
                   error>>

\* a slip: the new side's duplicates first
AllDuplicatesNewFirst(odups, ndups) == ndups \o odups

\* all_duplicates = old_duplicates + new_duplicates
AllDuplicates(odups, ndups) == odups \o ndups

\* if not old_rows and not new_rows: return [], all_duplicates
CompareReturnEmpty ==
    /\ pc = "diff"
    /\ DOMAIN old_rows = {} /\ DOMAIN new_rows = {}
    /\ results' = <<>>
    /\ all_duplicates' = AllDuplicates(old_duplicates, new_duplicates)
    /\ pc' = "done"
    /\ UNCHANGED <<config, self, inputs, apart, side, i, index_locals, old_index, new_index,
                   error>>

\* the classification loop, and return results, all_duplicates
CompareDiff ==
    /\ pc = "diff"
    /\ ~(DOMAIN old_rows = {} /\ DOMAIN new_rows = {})
    /\ results' = CompareResults(old_rows, new_rows, old_columns, new_columns)
    /\ all_duplicates' = AllDuplicates(old_duplicates, new_duplicates)
    /\ pc' = "done"
    /\ UNCHANGED <<config, self, inputs, apart, side, i, index_locals, old_index, new_index,
                   error>>

(***************************************************************************)
(* compare as a function of its arguments, for a comparator with the       *)
(* attributes key_columns and fail_on_duplicate_keys of the state: what a  *)
(* call returns or raises when it runs from entry to exit.                 *)
(***************************************************************************)
\* the locals of _create_row_lookup before its loop
NewIndex ==
    [lookup |-> EmptyLookup, columns |-> {}, duplicates |-> <<>>,
     duplicate_keys |-> {}, error |-> NoError]

\* one iteration of "for row in data", on the locals st
IndexRow(st, row) ==
    IF MissingKeys(row) # <<>>
    THEN [st EXCEPT !.error = KeyColumnNotFound(Head(MissingKeys(row)))]
    ELSE LET row_key == GenerateRowKey(row)
         IN  IF row_key \in st.duplicate_keys
             THEN [st EXCEPT !.duplicates = Append(@, row)]
             ELSE IF row_key \in DOMAIN st.lookup
             THEN IF RaisesOnCollision
                  THEN [st EXCEPT !.error = DuplicateRowKey(row_key)]
                  ELSE [st EXCEPT
                          !.duplicates = @ \o <<st.lookup[row_key].row_data, row>>,
                          !.lookup = [k \in DOMAIN st.lookup \ {row_key} |->
                                        st.lookup[k]],
                          !.duplicate_keys = @ \cup {row_key}]
             ELSE [st EXCEPT
                     !.columns = ObservedColumns(@, row),
                     !.lookup = [k \in DOMAIN st.lookup \cup {row_key} |->
                                   IF k = row_key
                                   THEN [row_digest |-> GenerateRowDigest(row),
                                         row_data |-> row]
                                   ELSE st.lookup[k]]]

\* _create_row_lookup(data), from row n on with the locals st
RECURSIVE CreateRowLookup(_, _, _)
CreateRowLookup(st, dataset, n) ==
    IF n > Len(dataset) \/ st.error # NoError THEN st
    ELSE CreateRowLookup(IndexRow(st, dataset[n]), dataset, n + 1)

\* _validate_key_columns(old, new): the error it raises, NoError when it returns
ValidateKeyColumns(old, new) ==
    IF old # <<>> /\ MissingKeys(old[1]) # <<>>
    THEN MissingKeyColumns("first", MissingKeys(old[1]))
    ELSE IF new # <<>> /\ MissingKeys(new[1]) # <<>>
    THEN MissingKeyColumns("second", MissingKeys(new[1]))
    ELSE NoError

\* what compare gives back: the returned pair, or the error raised
Outcome(res, dups, err) == [results |-> res, duplicates |-> dups, error |-> err]

\* compare(old, new)
Compare(old, new) ==
    IF ValidateKeyColumns(old, new) # NoError
    THEN Outcome(<<>>, <<>>, ValidateKeyColumns(old, new))
    ELSE LET o == CreateRowLookup(NewIndex, old, 1)
         IN  IF o.error # NoError THEN Outcome(<<>>, <<>>, o.error)
             ELSE LET n == CreateRowLookup(NewIndex, new, 1)
                  IN  IF n.error # NoError THEN Outcome(<<>>, <<>>, n.error)
                      ELSE IF DOMAIN o.lookup = {} /\ DOMAIN n.lookup = {}
                      THEN Outcome(<<>>, AllDuplicates(o.duplicates, n.duplicates),
                                   NoError)
                      ELSE Outcome(CompareResults(o.lookup, n.lookup,
                                                  o.columns, n.columns),
                                   AllDuplicates(o.duplicates, n.duplicates),
                                   NoError)

(***************************************************************************)
(* A second call of compare on the same comparator, running at the same    *)
(* time: its arguments, its position and its locals are its own (a frame); *)
(* it reads the attributes key_columns and fail_on_duplicate_keys of self. *)
(***************************************************************************)
\* the frame of compare(old, new) on entry
EntryFrame(old, new) ==
    [old_data |-> old, new_data |-> new, pc |-> "validate", side |-> "old",
     i |-> 1, locals |-> NewIndex, old_index |-> NewIndex, new_index |-> NewIndex,
     outcome |-> Outcome(<<>>, <<>>, NoError)]

\* the frame after the next step of its call: the validation, one row of an
\* index loop, the return of _create_row_lookup, or the diff loop
CallStep(f) ==
    IF f.pc = "validate"
    THEN IF ValidateKeyColumns(f.old_data, f.new_data) # NoError
         THEN [f EXCEPT !.pc = "error",
                        !.outcome = Outcome(<<>>, <<>>,
                                        ValidateKeyColumns(f.old_data, f.new_data))]
         ELSE [f EXCEPT !.pc = "index"]
    ELSE IF f.pc = "index"
    THEN LET dataset == IF f.side = "old" THEN f.old_data ELSE f.new_data
         IN  IF f.i <= Len(dataset)
             THEN LET st == IndexRow(f.locals, dataset[f.i])
                  IN  IF st.error # NoError
                      THEN [f EXCEPT !.pc = "error",
                                     !.outcome = Outcome(<<>>, <<>>, st.error)]
                      ELSE [f EXCEPT !.locals = st, !.i = @ + 1]
             ELSE IF f.side = "old"
             THEN [f EXCEPT !.old_index = f.locals, !.locals = NewIndex,
                            !.side = "new", !.i = 1]
             ELSE [f EXCEPT !.new_index = f.locals, !.pc = "diff"]
    ELSE [f EXCEPT
            !.pc = "done",
            !.outcome =
                Outcome(IF DOMAIN f.old_index.lookup = {}
                            /\ DOMAIN f.new_index.lookup = {}
                        THEN <<>>
                        ELSE CompareResults(f.old_index.lookup, f.new_index.lookup,
                                            f.old_index.columns, f.new_index.columns),
                        AllDuplicates(f.old_index.duplicates, f.new_index.duplicates),
                        NoError)]

\* a variant: the locals of _create_row_lookup kept on self, so that the two
\* calls index into the same lookup
OtherCallStepOnSelf ==
    /\ other.pc \in {"validate", "index", "diff"}
    /\ LET f == CallStep([other EXCEPT
                            !.locals = [lookup |-> lookup, columns |-> columns,
                                        duplicates |-> duplicates,
                                        duplicate_keys |-> duplicate_keys,
                                        error |-> NoError]])
       IN  /\ other' = f
           /\ lookup' = f.locals.lookup
           /\ columns' = f.locals.columns
           /\ duplicates' = f.locals.duplicates
           /\ duplicate_keys' = f.locals.duplicate_keys
    /\ UNCHANGED <<config, self, inputs, pc, side, i, old_index, new_index,
                   returned, error, format_call, formatted, loader>>

\* the second call takes a step
OtherCallStep ==
    /\ other.pc \in {"validate", "index", "diff"}
    /\ other' = CallStep(other)
    /\ UNCHANGED <<config, self, inputs, pc, side, i, index_locals, old_index,
                   new_index, returned, error, format_call, formatted, loader>>

(***************************************************************************)
(* config.py: loading a configuration file.  A JSON value is a list of      *)
(* texts, a text or a boolean; the content of a file is a map from field    *)
(* names to JSON values.                                                    *)
(***************************************************************************)
JList(items) == [type |-> "list", items |-> items, text |-> "", flag |-> FALSE]
JStr(text) == [type |-> "str", items |-> <<>>, text |-> text, flag |-> FALSE]
JBool(flag) == [type |-> "bool", items |-> <<>>, text |-> "", flag |-> flag]

\* Python's truth value of a JSON value
Truthy(v) ==
    IF v.type = "list" THEN v.items # <<>>
    ELSE IF v.type = "str" THEN v.text # ""
    ELSE v.flag

\* a file with malformed JSON
Malformed == [exists |-> TRUE, json |-> FALSE]
\* a file whose JSON is the object config_data
FileOf(config_data) == [exists |-> TRUE, json |-> TRUE, config_data |-> config_data]

ValueError(reason) == [kind |-> "error", type |-> "ValueError", reason |-> reason]
FileNotFoundError == [kind |-> "error", type |-> "FileNotFoundError"]

\* the defaults of the optional fields in _parse_config
defaults ==
    [excluded_columns |-> JList(<<>>),
     schema_mismatch_behavior |-> JStr("warn"),
     fail_on_duplicate_keys |-> JBool(TRUE)]

known_fields ==
    {"key_columns", "excluded_columns", "schema_mismatch_behavior",
     "fail_on_duplicate_keys"}

valid_behaviors == {JStr("fail"), JStr("warn"), JStr("ignore")}

\* config_data after the defaults are merged in
Merged(config_data) ==
    [f \in DOMAIN config_data \cup DOMAIN defaults |->
        IF f \in DOMAIN config_data THEN config_data[f] ELSE defaults[f]]

\* ComparisonConfig(...): the dataclass with its four attributes, or the
\* error _validate raises
ComparisonConfig(key_cols, excluded_columns, schema_mismatch_behavior, fail_flag) ==
    IF ~Truthy(key_cols)
    THEN ValueError("key_columns cannot be empty")
    ELSE IF key_cols.type # "list"
    THEN ValueError("key_columns must be a list")
    ELSE IF excluded_columns.type # "list"
    THEN ValueError("excluded_columns must be a list")
    ELSE IF schema_mismatch_behavior \notin valid_behaviors
    THEN ValueError("schema_mismatch_behavior must be one of")
    ELSE IF fail_flag.type # "bool"
    THEN ValueError("fail_on_duplicate_keys must be a boolean")
    ELSE [kind |-> "config",
          key_columns |-> key_cols,
          excluded_columns |-> excluded_columns,
          schema_mismatch_behavior |-> schema_mismatch_behavior,
          fail_on_duplicate_keys |-> fail_flag]

\* ConfigLoader._parse_config(config_data)
ParseConfig(config_data) ==
    IF "key_columns" \notin DOMAIN config_data
    THEN ValueError("Required field 'key_columns' missing from configuration")
    ELSE IF DOMAIN Merged(config_data) \ known_fields # {}
    THEN ValueError("Unknown configuration fields")
    ELSE ComparisonConfig(Merged(config_data).key_columns,
                          Merged(config_data).excluded_columns,
                          Merged(config_data).schema_mismatch_behavior,
                          Merged(config_data).fail_on_duplicate_keys)

\* ConfigLoader.load_config(config_path) on the file at that path
LoadConfigOf(file) ==
    IF ~file.exists THEN FileNotFoundError
    ELSE IF ~file.json THEN ValueError("Invalid JSON in configuration file")
    ELSE ParseConfig(file.config_data)

\* load_config is called on the path and returns or raises
LoadConfig ==
    /\ pc = "idle"
    /\ format_call = NoCall
    /\ loaded' = LoadConfigOf(config_file)
    /\ UNCHANGED <<config, self, inputs, pc, side, i, index_locals, old_index,
                   new_index, returned, error, format_call, formatted, other,
                   config_file, example_pc>>

\* the content create_example_config writes
example_config ==
    [key_columns |-> JList(<<T_ID, T_Name>>),
     excluded_columns |-> JList(<<T_LastLogin, T_Notes>>),
     schema_mismatch_behavior |-> JStr("warn"),
     fail_on_duplicate_keys |-> JBool(TRUE)]

\* create_example_config is called on the path: open(output_path, 'w')
\* creates or truncates the file, which holds no JSON value until the dump
CreateExampleOpen ==
    /\ example_pc = "idle"
    /\ pc = "idle"
    /\ format_call = NoCall
    /\ config_file' = Malformed
    /\ example_pc' = "opened"
    /\ UNCHANGED <<config, self, inputs, pc, side, i, index_locals, old_index,
                   new_index, returned, error, format_call, formatted, other,
                   loaded>>

\* json.dump and the end of the with block: the file holds example_config
CreateExampleDump ==
    /\ example_pc = "opened"
    /\ config_file' = FileOf(example_config)
    /\ example_pc' = "idle"
    /\ UNCHANGED <<config, self, inputs, pc, side, i, index_locals, old_index,
                   new_index, returned, error, format_call, formatted, other,
                   loaded>>

NextLoad ==
    \/ LoadConfig
    \/ CreateExampleOpen
    \/ CreateExampleDump

\* _format_compared_row returns
FormatReturn ==
    /\ format_call # NoCall
    /\ formatted = <<>>
    /\ formatted' = FormatComparedRow(format_call.row_key, format_call.status,
                                      format_call.changed_columns,
                                      format_call.old_values, format_call.new_values)
    /\ UNCHANGED <<config, self, inputs, pc, side, i, index_locals, old_index,
                   new_index, returned, error, format_call, other, loader>>

NextFormat == FormatReturn

\* two calls of compare, interleaved in any way
NextTwo ==
    \/ ValidatePass
    \/ ValidateRaise
    \/ IndexKeyMissing
    \/ IndexKnownDuplicate
    \/ IndexCollisionRaise
    \/ IndexCollisionMove
    \/ IndexInsert
    \/ IndexOldReturn
    \/ IndexNewReturn
    \/ CompareReturnEmpty
    \/ CompareDiff
    \/ OtherCallStep

Next ==
    \/ ValidatePass
    \/ ValidateRaise
    \/ IndexKeyMissing
    \/ IndexKnownDuplicate
    \/ IndexCollisionRaise
    \/ IndexCollisionMove
    \/ IndexInsert
    \/ IndexOldReturn
    \/ IndexNewReturn
    \/ CompareReturnEmpty
    \/ CompareDiff

(***************************************************************************)
(* Inputs.                                                                 *)
(***************************************************************************)
\* the marker of a column a row does not have
Absent == [kind |-> "absent", text |-> EmptyText, num |-> 0]

\* the rows whose column c is absent or holds one of options[c]
RowsOver(options) ==
    { [c \in {d \in DOMAIN a : a[d] # Absent} |-> a[c]] :
        a \in { b \in [DOMAIN options -> UNION Range(options)] :
                  \A c \in DOMAIN options : b[c] \in options[c] } }

SeqsOfLen(S, n) == [1..n -> S]

SeqsUpTo(S, n) == UNION {SeqsOfLen(S, k) : k \in 0..n}

\* config.get("key_columns", [])
ConfigKeyColumns(cfg) ==
    IF "key_columns" \in DOMAIN cfg THEN cfg.key_columns ELSE <<>>

\* a slip: the default of the flag is False
ConfigFailOnDuplicateKeysOff(cfg) ==
    IF "fail_on_duplicate_keys" \in DOMAIN cfg THEN cfg.fail_on_duplicate_keys
    ELSE FALSE

\* config.get("fail_on_duplicate_keys", True)
ConfigFailOnDuplicateKeys(cfg) ==
    IF "fail_on_duplicate_keys" \in DOMAIN cfg THEN cfg.fail_on_duplicate_keys
    ELSE TRUE

\* the comparator built from a config: __init__
Built(cfg) ==
    /\ config = cfg
    /\ key_columns = ConfigKeyColumns(cfg)
    /\ fail_on_duplicate_keys = ConfigFailOnDuplicateKeys(cfg)

\* the locals of compare before its first statement
FreshLocals ==
    /\ side = "old"
    /\ i = 1
    /\ lookup = EmptyLookup /\ columns = {} /\ duplicates = <<>>
    /\ duplicate_keys = {}
    /\ old_rows = EmptyLookup /\ old_columns = {} /\ old_duplicates = <<>>
    /\ new_rows = EmptyLookup /\ new_columns = {} /\ new_duplicates = <<>>
    /\ results = <<>> /\ all_duplicates = <<>>
    /\ error = NoError

\* compare(old, new) is entered
Entered(old, new) ==
    /\ old_data = old
    /\ new_data = new
    /\ pc = "validate"
    /\ FreshLocals

\* compare(old, new) is entered on a comparator built from cfg, and nothing else
Start(cfg, old, new) ==
    /\ Built(cfg)
    /\ Entered(old, new)
    /\ FormatIdle
    /\ LoaderIdle
    /\ other = NoFrame

\* compare is not called
NoCompare ==
    /\ old_data = <<>>
    /\ new_data = <<>>
    /\ pc = "idle"
    /\ FreshLocals

\* rows keyed by ID with one value column: text, empty text, an int, or none
ValueRows ==
    RowsOver([c \in {T_ID, T_Age} |->
                IF c = T_ID THEN {Absent, StrVal(T_1), StrVal(T_2)}
                ELSE {Absent, StrVal(EmptyText), StrVal(T_5), IntVal(5)}])

\* rows keyed by ID with two more columns, each present or not
ColumnRows ==
    RowsOver([c \in {T_ID, T_Age, T_Name} |->
                IF c = T_ID THEN {Absent, StrVal(T_1), StrVal(T_2)}
                ELSE IF c = T_Age THEN {Absent, StrVal(T_5)}
                ELSE {Absent, StrVal(T_A)}])

\* rows whose joined keys sort differently as text and as tuples
KeyRows ==
    RowsOver([c \in {T_ID, T_Name} |->
                IF c = T_ID THEN {Absent, StrVal(T_1), StrVal(T_12), StrVal(T_2)}
                ELSE {Absent, StrVal(EmptyText), StrVal(T_A)}])

\* several rows for each key, told apart by Age
DupRows ==
    RowsOver([c \in {T_ID, T_Age} |->
                IF c = T_ID THEN {Absent, StrVal(T_1), StrVal(T_2)}
                ELSE {StrVal(T_5), StrVal(T_6)}])

\* rows for a dataset compared with itself
SameRows ==
    RowsOver([c \in {T_ID, T_Age} |->
                IF c = T_ID THEN {Absent, StrVal(T_1), StrVal(T_12), StrVal(T_2)}
                ELSE {Absent, StrVal(EmptyText), StrVal(T_5), IntVal(5)}])

\* rows with or without the key 1 and one of two values
OneKeyRows ==
    RowsOver([c \in {T_ID, T_Age} |->
                IF c = T_ID THEN {Absent, StrVal(T_1)}
                ELSE {StrVal(T_5), StrVal(T_6)}])

\* rows whose key values hold the separator: ID "1|" with Name "" and ID "1"
\* with Name "|" are joined to one RowKey
PipeRows ==
    RowsOver([c \in {T_ID, T_Name, T_Age} |->
                IF c = T_ID THEN {Absent, StrVal(T_1), StrVal(T_1Pipe)}
                ELSE IF c = T_Name THEN {StrVal(EmptyText), StrVal(T_Pipe)}
                ELSE {StrVal(T_5), StrVal(T_6)}])

\* every comparator over keys and every pair of datasets over rows with at
\* most n rows together
StartAny(keys, rows, max) ==
    \E n \in 0..max, fail \in BOOLEAN, kc \in keys :
      \E k \in 0..n :
        \E old \in SeqsOfLen(rows, k), new \in SeqsOfLen(rows, n - k) :
            Start([key_columns |-> kc, fail_on_duplicate_keys |-> fail],
                      old, new)

Init == StartAny({<<T_ID>>}, ValueRows, MaxRows)

InitCols == StartAny({<<T_ID>>}, ColumnRows, MaxColsRows)

InitKeys == StartAny({<<T_ID>>, <<T_ID, T_Name>>, <<T_Name, T_ID>>}, KeyRows, MaxKeyRows)

InitDup == StartAny({<<T_ID>>}, DupRows, MaxDupRows)

InitSame ==
    \E fail \in BOOLEAN, d \in SeqsUpTo(SameRows, MaxSameRows) :
        Start([key_columns |-> <<T_ID>>, fail_on_duplicate_keys |-> fail], d, d)

InitPipe == StartAny({<<T_ID>>, <<T_ID, T_Name>>}, PipeRows, MaxPipeRows)

\* the configs keyed by ID that set fail_on_duplicate_keys or leave it out
DefaultConfigs ==
    {[key_columns |-> <<T_ID>>]}
        \cup {[key_columns |-> <<T_ID>>, fail_on_duplicate_keys |-> fail] :
                 fail \in BOOLEAN}

InitDefault ==
    \E n \in 0..MaxDefaultRows, cfg \in DefaultConfigs :
      \E k \in 0..n :
        \E old \in SeqsOfLen(DupRows, k), new \in SeqsOfLen(DupRows, n - k) :
            Start(cfg, old, new)

\* two calls on one comparator, each with its own datasets
InitTwo ==
    \E n \in 0..MaxTwoRows, fail \in BOOLEAN :
      \E a \in 0..n : \E b \in 0..(n - a) : \E c \in 0..(n - a - b) :
        \E old \in SeqsOfLen(OneKeyRows, a), new \in SeqsOfLen(OneKeyRows, b),
           old2 \in SeqsOfLen(OneKeyRows, c), new2 \in SeqsOfLen(OneKeyRows, n - a - b - c) :
            /\ Built([key_columns |-> <<T_ID>>, fail_on_duplicate_keys |-> fail])
            /\ Entered(old, new)
            /\ FormatIdle
            /\ LoaderIdle
            /\ other = EntryFrame(old2, new2)

\* the configuration files with every field, each with one of its values
FieldValues ==
    [key_columns: {JList(<<>>), JList(<<T_ID>>), JList(<<T_ID, T_Name>>),
                      JStr("ID")},
     excluded_columns: {JList(<<>>), JList(<<T_Notes>>), JStr("Notes")},
     schema_mismatch_behavior: {JStr("fail"), JStr("warn"), JStr("ignore"),
                                JStr("skip")},
     fail_on_duplicate_keys: {JBool(TRUE), JBool(FALSE), JStr("yes")},
     include_unchanged_columns: {JBool(TRUE), JBool(FALSE)}]

\* the names of the fields a configuration file may hold
FieldNames ==
    {"key_columns", "excluded_columns", "schema_mismatch_behavior",
     "fail_on_duplicate_keys", "include_unchanged_columns"}

\* the contents of configuration files: some of the fields, each with one of
\* its values
ConfigData ==
    {[f \in fields |-> all[f]] : all \in FieldValues, fields \in SUBSET FieldNames}

\* load_config is called on a path with no file, a malformed file, or a file
\* with some fields
InitLoad ==
    /\ Built([key_columns |-> <<T_ID>>])
    /\ NoCompare
    /\ FormatIdle
    /\ other = NoFrame
    /\ loaded = NotLoaded
    /\ example_pc = "idle"
    /\ config_file \in {NoFile, Malformed}
           \cup {FileOf(config_data) : config_data \in ConfigData}

\* the maps from some of the columns cols to the values vals
ValuesOver(cols, vals) == UNION {[D -> vals] : D \in SUBSET cols}

\* a call of _format_compared_row on any status, changed columns and pair of
\* value maps, which need not have the same columns
InitFormat ==
    /\ Built([key_columns |-> <<T_ID>>])
    /\ NoCompare
    /\ LoaderIdle
    /\ other = NoFrame
    /\ formatted = <<>>
    /\ \E status \in {ADDED, REMOVED, CHANGED},
          changed_columns \in SeqsUpTo({T_Age, T_Name}, MaxChangedColumns),
          old_values \in ValuesOver({T_ID, T_Age, T_Name}, {StrVal(EmptyText), StrVal(T_5)}),
          new_values \in ValuesOver({T_ID, T_Age, T_Name}, {StrVal(EmptyText), StrVal(T_6)}) :
            format_call = [called |-> TRUE, row_key |-> T_12, status |-> status,
                           changed_columns |-> changed_columns,
                           old_values |-> old_values, new_values |-> new_values]

Spec == Init /\ [][Next]_vars

SpecCols == InitCols /\ [][Next]_vars

SpecKeys == InitKeys /\ [][Next]_vars

SpecDup == InitDup /\ [][Next]_vars

SpecSame == InitSame /\ [][Next]_vars

SpecPipe == InitPipe /\ [][Next]_vars

SpecDefault == InitDefault /\ [][Next]_vars

SpecTwo == InitTwo /\ [][NextTwo]_vars

SpecFormat == InitFormat /\ [][NextFormat]_vars

SpecLoad == InitLoad /\ [][NextLoad]_vars

(***************************************************************************)
(* The claims.  Vocabulary first.                                          *)
(***************************************************************************)
\* the results whose "Row Key" is k
ResultsAt(k) == {j \in DOMAIN results : DictGet(results[j], T_RowKey) = StrVal(k)}

FieldIs(r, f, v) == DictHas(r, f) /\ DictGet(r, f) = v

\* the columns of the rows left in a lookup
LookupColumns(rows) == UNION {DOMAIN rows[k].row_data : k \in DOMAIN rows}

\* the canonical non-key columns of the call: the observed columns of both
\* sides, minus the key columns
CanonicalColumns == (old_columns \cup new_columns) \ Range(key_columns)

\* the columns of the canonical list whose old and new values differ as text
Differing(k) ==
    {c \in CanonicalColumns :
        Str(RowGet(old_rows[k].row_data, c)) # Str(RowGet(new_rows[k].row_data, c))}

\* the elements of S in increasing lexicographic order
InOrder(S) ==
    CHOOSE s \in [1..Cardinality(S) -> S] :
        /\ Range(s) = S
        /\ \A a, b \in DOMAIN s : a < b => LexLess(s[a], s[b])

\* C1: when compare succeeds, each key of the new lookup that the old lookup
\* lacks has exactly one result; its Status is Added, its Changed Columns is
\* empty, and for every canonical non-key column its (Old) field is empty text
\* and its (New) field is the new row's value, empty text when the row lacks it.
C1_Added ==
    pc = "done" =>
        \A k \in DOMAIN new_rows \ DOMAIN old_rows :
            /\ Cardinality(ResultsAt(k)) = 1
            /\ \A j \in ResultsAt(k) :
                /\ FieldIs(results[j], T_Status, StrVal(ADDED))
                /\ FieldIs(results[j], T_ChangedColumns, StrVal(EmptyText))
                /\ \A c \in CanonicalColumns :
                    /\ FieldIs(results[j], OldField(c), StrVal(EmptyText))
                    /\ FieldIs(results[j], NewField(c),
                               IF c \in DOMAIN new_rows[k].row_data
                               THEN new_rows[k].row_data[c] ELSE StrVal(EmptyText))

\* an added row with a value, beside an added or changed row that lacks the column
C1_Witness ==
    /\ pc = "done"
    /\ \E k \in DOMAIN new_rows \ DOMAIN old_rows :
        /\ T_Age \in DOMAIN new_rows[k].row_data
        /\ new_rows[k].row_data[T_Age] # StrVal(EmptyText)
    /\ \E k \in DOMAIN new_rows \ DOMAIN old_rows :
        /\ T_Age \notin DOMAIN new_rows[k].row_data
        /\ T_Age \in CanonicalColumns

\* C2: when compare succeeds, each key of the old lookup that the new lookup
\* lacks has exactly one result; its Status is Removed, its Changed Columns is
\* empty, and for every canonical non-key column its (Old) field is the old
\* row's value, empty text when the row lacks it, and its (New) field is empty.
C2_Removed ==
    pc = "done" =>
        \A k \in DOMAIN old_rows \ DOMAIN new_rows :
            /\ Cardinality(ResultsAt(k)) = 1
            /\ \A j \in ResultsAt(k) :
                /\ FieldIs(results[j], T_Status, StrVal(REMOVED))
                /\ FieldIs(results[j], T_ChangedColumns, StrVal(EmptyText))
                /\ \A c \in CanonicalColumns :
                    /\ FieldIs(results[j], NewField(c), StrVal(EmptyText))
                    /\ FieldIs(results[j], OldField(c),
                               IF c \in DOMAIN old_rows[k].row_data
                               THEN old_rows[k].row_data[c] ELSE StrVal(EmptyText))

\* a removed row with a value, beside a removed row that lacks the column
C2_Witness ==
    /\ pc = "done"
    /\ \E k \in DOMAIN old_rows \ DOMAIN new_rows :
        /\ T_Age \in DOMAIN old_rows[k].row_data
        /\ old_rows[k].row_data[T_Age] # StrVal(EmptyText)
    /\ \E k \in DOMAIN old_rows \ DOMAIN new_rows :
        /\ T_Age \notin DOMAIN old_rows[k].row_data
        /\ T_Age \in CanonicalColumns

\* C3: for a key of both lookups there is a Changed result exactly when some
\* canonical non-key column differs as text between the two rows; there is then
\* one such result, its Changed Columns lists exactly the differing columns in
\* lexicographic order, and it records the old and new value of each.
C3_Changed ==
    pc = "done" =>
        \A k \in DOMAIN old_rows \cap DOMAIN new_rows :
            LET changed == {j \in ResultsAt(k) :
                              FieldIs(results[j], T_Status, StrVal(CHANGED))}
            IN  /\ (changed # {}) <=> (Differing(k) # {})
                /\ Cardinality(changed) <= 1
                /\ \A j \in changed :
                    /\ FieldIs(results[j], T_ChangedColumns,
                               StrVal(Join(InOrder(Differing(k)), T_CommaSpace)))
                    /\ \A c \in Differing(k) :
                        /\ FieldIs(results[j], OldField(c),
                                   RowGet(old_rows[k].row_data, c))
                        /\ FieldIs(results[j], NewField(c),
                                   RowGet(new_rows[k].row_data, c))

\* a changed row with two differing columns
C3_Witness ==
    /\ pc = "done"
    /\ \E k \in DOMAIN old_rows \cap DOMAIN new_rows :
        /\ Cardinality(Differing(k)) >= 2
        /\ ResultsAt(k) # {}

\* C4: a key of both lookups whose canonical non-key columns are all equal as
\* text has no result, and no Changed result has an empty Changed Columns.
C4_NoEmptyChange ==
    pc = "done" =>
        /\ \A k \in DOMAIN old_rows \cap DOMAIN new_rows :
            Differing(k) = {} => ResultsAt(k) = {}
        /\ \A j \in DOMAIN results :
            FieldIs(results[j], T_Status, StrVal(CHANGED))
                => ~FieldIs(results[j], T_ChangedColumns, StrVal(EmptyText))

\* two rows whose digests differ only by the type of a value ("5" and 5)
C4_Witness ==
    /\ pc = "done"
    /\ \E k \in DOMAIN old_rows \cap DOMAIN new_rows :
        /\ old_rows[k].row_digest # new_rows[k].row_digest
        /\ T_Age \in DOMAIN old_rows[k].row_data \cap DOMAIN new_rows[k].row_data
        /\ old_rows[k].row_data[T_Age].kind # new_rows[k].row_data[T_Age].kind
        /\ ResultsAt(k) = {}

Keyed(row) == MissingKeys(row) = <<>>

\* every row has its key columns and no two rows share a RowKey
UniqueKeyed(d) ==
    /\ \A a \in DOMAIN d : Keyed(d[a])
    /\ \A a, b \in DOMAIN d : a # b => GenerateRowKey(d[a]) # GenerateRowKey(d[b])

\* C5: comparing a dataset with itself, when its RowKeys are pairwise distinct
\* and every row has every key column, succeeds with no result and no duplicate.
C5_Identity ==
    (new_data = old_data /\ UniqueKeyed(old_data)) =>
        /\ pc # "error"
        /\ pc = "done" => (results = <<>> /\ all_duplicates = <<>>)

\* a dataset of three rows compared with itself
C5_Witness ==
    /\ pc = "done"
    /\ new_data = old_data
    /\ UniqueKeyed(old_data)
    /\ Len(old_data) = 3
    /\ \E a \in DOMAIN old_data : DOMAIN old_data[a] # {T_ID}

\* C6: the results are strictly increasing by Row Key, in the lexicographic
\* order of the joined key text, so no Row Key has two results.
C6_Sorted ==
    pc = "done" =>
        \A a, b \in DOMAIN results :
            a < b => LexLess(Str(DictGet(results[a], T_RowKey)),
                             Str(DictGet(results[b], T_RowKey)))

\* results for two-column keys whose rows came in descending key order
C6_Witness ==
    /\ pc = "done"
    /\ Len(results) >= 2
    /\ Len(key_columns) = 2
    /\ Len(old_data) >= 2
    /\ LexLess(GenerateRowKey(old_data[2]), GenerateRowKey(old_data[1]))

\* how many times row r occurs in the sequence s
Count(s, r) == Cardinality({j \in DOMAIN s : s[j] = r})

\* how many rows of d have the RowKey k
KeyCount(d, k) == Cardinality({j \in DOMAIN d : GenerateRowKey(d[j]) = k})

\* how many times r occurs in d as a row whose RowKey d holds twice or more
DupTimes(d, r) ==
    IF Count(d, r) > 0 /\ KeyCount(d, GenerateRowKey(r)) >= 2 THEN Count(d, r) ELSE 0

\* C7: with fail_on_duplicate_keys false, every occurrence of a row whose RowKey
\* occurs twice or more in its dataset is in the duplicates output exactly once
\* (the first-seen row too), and no row with a RowKey of its own is in it.
C7_Conservation ==
    (pc = "done" /\ ~fail_on_duplicate_keys) =>
        \A r \in Range(old_data) \cup Range(new_data) \cup Range(all_duplicates) :
            /\ Count(old_duplicates, r) = DupTimes(old_data, r)
            /\ Count(new_duplicates, r) = DupTimes(new_data, r)
            /\ Count(all_duplicates, r) = DupTimes(old_data, r) + DupTimes(new_data, r)

\* a key held three times beside a key held once
C7_Witness ==
    /\ pc = "done"
    /\ ~fail_on_duplicate_keys
    /\ \E a, b \in DOMAIN old_data :
        /\ KeyCount(old_data, GenerateRowKey(old_data[a])) = 3
        /\ KeyCount(old_data, GenerateRowKey(old_data[b])) = 1

RECURSIVE IsSubsequence(_, _)
IsSubsequence(s, t) ==
    IF s = <<>> THEN TRUE
    ELSE IF t = <<>> THEN FALSE
    ELSE IF Head(s) = Head(t) THEN IsSubsequence(Tail(s), Tail(t))
    ELSE IsSubsequence(s, Tail(t))

\* C8 as stated: the duplicate list of a dataset holds its rows in the relative
\* order in which they occur in the input.
C8_EncounterOrder ==
    pc = "done" =>
        /\ IsSubsequence(old_duplicates, old_data)
        /\ IsSubsequence(new_duplicates, new_data)

\* row j of d is the n-th row of d with its RowKey
Occurrence(d, j) ==
    Cardinality({a \in 1..j : GenerateRowKey(d[a]) = GenerateRowKey(d[j])})

\* the first row of d with the RowKey of row j
FirstWithKeyOf(d, j) ==
    d[CHOOSE a \in 1..j : /\ GenerateRowKey(d[a]) = GenerateRowKey(d[j])
                          /\ Occurrence(d, a) = 1]

\* the rows of d from row j on, each second or later occurrence of a key in its
\* input position, each first-seen row right before its key's second occurrence
RECURSIVE CollisionOrder(_, _)
CollisionOrder(d, j) ==
    IF j > Len(d) THEN <<>>
    ELSE (IF Occurrence(d, j) = 1 THEN <<>>
          ELSE IF Occurrence(d, j) = 2 THEN <<FirstWithKeyOf(d, j), d[j]>>
          ELSE <<d[j]>>) \o CollisionOrder(d, j + 1)

\* C8, amended: the duplicate list holds the second and later occurrences of
\* every colliding key in input order, and each first-seen row immediately
\* before the second occurrence of its key.
C8_CollisionOrder ==
    pc = "done" =>
        /\ old_duplicates = CollisionOrder(old_data, 1)
        /\ new_duplicates = CollisionOrder(new_data, 1)

\* two colliding keys with interleaved occurrences: the list is out of input order
C8_Witness ==
    /\ pc = "done"
    /\ ~IsSubsequence(old_duplicates, old_data)

\* row j of d has the RowKey of an earlier row of d
CollisionAt(d, j) ==
    /\ Keyed(d[j])
    /\ \E a \in 1..(j - 1) :
        Keyed(d[a]) /\ GenerateRowKey(d[a]) = GenerateRowKey(d[j])

HasCollision(d) == \E j \in DOMAIN d : CollisionAt(d, j)

\* the earliest second occurrence of a key in d
FirstCollision(d) ==
    CHOOSE j \in DOMAIN d : CollisionAt(d, j) /\ \A a \in 1..(j - 1) : ~CollisionAt(d, a)

\* the first dataset that contains a collision
CollidingSide == IF HasCollision(old_data) THEN "old" ELSE "new"
CollidingData == IF HasCollision(old_data) THEN old_data ELSE new_data

\* the duplicate-key failure the claim describes
FailsOnFirstCollision ==
    /\ pc = "error"
    /\ error = DuplicateRowKey(GenerateRowKey(CollidingData[FirstCollision(CollidingData)]))
    /\ side = CollidingSide
    /\ i = FirstCollision(CollidingData)
    /\ results = <<>>
    /\ all_duplicates = <<>>

\* C9 as stated: with fail_on_duplicate_keys true and a dataset that holds two
\* rows with one RowKey, compare ends in the duplicate-key error that names the
\* key of the earliest second occurrence in the first such dataset, with the
\* rows after it unprocessed and nothing returned.
C9_DuplicateError ==
    (/\ fail_on_duplicate_keys
     /\ HasCollision(old_data) \/ HasCollision(new_data)
     /\ pc \in {"done", "error"}) => FailsOnFirstCollision

\* no missing-key-column error comes before the first collision: the first row
\* of each dataset and every row indexed before the collision have the key columns
NoMissingKeyBefore ==
    /\ FirstInvalid = "none"
    /\ \A a \in 1..FirstCollision(CollidingData) : Keyed(CollidingData[a])
    /\ CollidingSide = "new" => \A a \in DOMAIN old_data : Keyed(old_data[a])

\* C9, amended: the same, provided no row that lacks a key column is met first
\* (the first row of each dataset and the rows indexed before the collision).
C9_DuplicateErrorUnlessMissing ==
    (/\ fail_on_duplicate_keys
     /\ HasCollision(old_data) \/ HasCollision(new_data)
     /\ NoMissingKeyBefore) =>
        /\ pc # "done"
        /\ results = <<>> /\ all_duplicates = <<>>
        /\ pc = "error" => FailsOnFirstCollision
        /\ (pc = "index" /\ side = CollidingSide) => i <= FirstCollision(CollidingData)
        /\ CollidingSide = "old" => side = "old"
        /\ ~(ENABLED Next) => pc = "error"

\* the error raised in the second dataset, with rows left after the collision
C9_Witness ==
    /\ pc = "error"
    /\ fail_on_duplicate_keys
    /\ error.kind = "duplicate_row_key"
    /\ side = "new"
    /\ i < Len(new_data)
    /\ Len(old_data) > 0

\* C10: a duplicate-key error is raised only with fail_on_duplicate_keys true
\* and at a row whose RowKey an earlier row of the same dataset has; with the
\* flag false compare never fails with it.
C10_OnlyWhenFlagSet ==
    error.kind = "duplicate_row_key" =>
        /\ fail_on_duplicate_keys
        /\ pc = "error"
        /\ i \in DOMAIN data
        /\ CollisionAt(data, i)

\* the flag false and two keys colliding: compare returns
C10_Witness ==
    /\ pc = "done"
    /\ ~fail_on_duplicate_keys
    /\ error = NoError
    /\ \E a, b \in DOMAIN old_data :
        /\ CollisionAt(old_data, a) /\ CollisionAt(old_data, b)
        /\ GenerateRowKey(old_data[a]) # GenerateRowKey(old_data[b])


\* some row of either dataset, at any position, lacks a key column
HasUnkeyedRow ==
    \E r \in Range(old_data) \cup Range(new_data) : ~Keyed(r)

\* the errors that report a missing key column
MissingKeyErrors == {"missing_key_columns", "key_column_not_found"}

\* with the flag set, a key collision is met before any row that lacks a key column
DuplicateErrorFirst ==
    /\ fail_on_duplicate_keys
    /\ HasCollision(old_data) \/ HasCollision(new_data)
    /\ NoMissingKeyBefore

\* C11 as stated: when some row of either dataset lacks a key column, compare
\* ends in a missing-key-column error and returns nothing, whatever the flag.
C11_MissingKeyError ==
    (HasUnkeyedRow /\ pc \in {"done", "error"}) =>
        /\ pc = "error"
        /\ error.kind \in MissingKeyErrors
        /\ results = <<>> /\ all_duplicates = <<>>

\* C11, amended: when some row of either dataset lacks a key column, compare
\* fails and returns nothing; the error is a missing-key-column error, raised
\* at the first such row (or by the validation of the first rows), unless the
\* flag is set and a key collision is met first, and then it is the
\* duplicate-key error.
C11_MissingKeyErrorUnlessDuplicate ==
    HasUnkeyedRow =>
        /\ pc # "done"
        /\ results = <<>> /\ all_duplicates = <<>>
        /\ ~(ENABLED Next) => pc = "error"
        /\ pc = "error" =>
            IF DuplicateErrorFirst THEN error.kind = "duplicate_row_key"
            ELSE /\ error.kind \in MissingKeyErrors
                 /\ error.kind = "key_column_not_found" =>
                     /\ FirstInvalid = "none"
                     /\ i \in DOMAIN data
                     /\ ~Keyed(data[i])
                     /\ \A a \in 1..(i - 1) : Keyed(data[a])
                     /\ side = "new" => \A r \in Range(old_data) : Keyed(r)

\* with the flag false, a row without its key met after a collision was
\* collected in the second dataset: the error, and nothing returned
C11_Witness ==
    /\ pc = "error"
    /\ ~fail_on_duplicate_keys
    /\ error.kind = "key_column_not_found"
    /\ side = "new"
    /\ i = 3
    /\ duplicates # <<>>
    /\ Len(old_data) > 0

\* the key columns that are not among the columns of row
AbsentKeys(row) == {k \in Range(key_columns) : k \notin DOMAIN row}

\* the datasets (by the name the error gives them) that are not empty and
\* whose first row lacks a key column
InvalidFirstRows ==
    {n \in {"first", "second"} :
        LET d == IF n = "first" THEN old_data ELSE new_data
        IN  d # <<>> /\ AbsentKeys(d[1]) # {}}

FirstRowOf(n) == IF n = "first" THEN old_data[1] ELSE new_data[1]

\* no row has been indexed
NothingIndexed ==
    /\ side = "old" /\ i = 1
    /\ lookup = EmptyLookup /\ columns = {}
    /\ duplicates = <<>> /\ duplicate_keys = {}
    /\ old_rows = EmptyLookup /\ new_rows = EmptyLookup

\* C12 as stated: when the first row of a non-empty dataset lacks key columns,
\* compare fails before any row is indexed, with a missing-key-column error
\* that lists every key column absent from that first row.
C12_FirstRowError ==
    \A n \in InvalidFirstRows :
        /\ pc \in {"validate", "error"}
        /\ NothingIndexed
        /\ results = <<>> /\ all_duplicates = <<>>
        /\ ~(ENABLED Next) => pc = "error"
        /\ pc = "error" =>
            /\ error.kind = "missing_key_columns"
            /\ Range(error.keys) = AbsentKeys(FirstRowOf(n))

\* C12, amended: the same, the error being about the first such dataset (the
\* old one before the new one): it names that dataset and lists, in the order
\* of the key columns, every key column absent from the first row of it.
C12_FirstRowErrorOfFirstDataset ==
    InvalidFirstRows # {} =>
        LET n == IF "first" \in InvalidFirstRows THEN "first" ELSE "second"
        IN  /\ pc \in {"validate", "error"}
            /\ NothingIndexed
            /\ results = <<>> /\ all_duplicates = <<>>
            /\ ~(ENABLED Next) => pc = "error"
            /\ pc = "error" =>
                /\ error.kind = "missing_key_columns"
                /\ error.dataset = n
                /\ Range(error.keys) = AbsentKeys(FirstRowOf(n))
                /\ Len(error.keys) = Cardinality(AbsentKeys(FirstRowOf(n)))
                /\ IsSubsequence(error.keys, key_columns)

\* the first row of the second dataset lacks both key columns, after a first
\* dataset with its keys
C12_Witness ==
    /\ pc = "error"
    /\ error.kind = "missing_key_columns"
    /\ error.dataset = "second"
    /\ Len(error.keys) = 2
    /\ old_data # <<>>
    /\ Len(new_data) >= 2

\* C13: with both datasets empty compare returns, without an error, no result
\* and no duplicate, for every choice of key columns and either flag.
C13_BothEmpty ==
    (old_data = <<>> /\ new_data = <<>>) =>
        /\ pc # "error"
        /\ error = NoError
        /\ results = <<>> /\ all_duplicates = <<>>
        /\ ~(ENABLED Next) => pc = "done"

\* compare has returned for two empty datasets, two key columns and the flag set
C13_Witness ==
    /\ pc = "done"
    /\ old_data = <<>> /\ new_data = <<>>
    /\ Len(key_columns) = 2
    /\ fail_on_duplicate_keys
    /\ old_rows = EmptyLookup /\ new_rows = EmptyLookup

\* what compare(new_data, old_data) returns as results when compare(old_data,
\* new_data) has returned: each dataset is indexed by itself, so the swapped
\* call has the same two lookups and observed columns, in the other roles
SwappedResults ==
    IF DOMAIN new_rows = {} /\ DOMAIN old_rows = {} THEN <<>>
    ELSE CompareResults(new_rows, old_rows, new_columns, old_columns)

RowKeysOf(rs) == {DictGet(rs[j], T_RowKey) : j \in DOMAIN rs}

\* the status the swapped call gives to a row of this status
SwappedStatus(v) ==
    IF v = StrVal(ADDED) THEN StrVal(REMOVED)
    ELSE IF v = StrVal(REMOVED) THEN StrVal(ADDED)
    ELSE v

\* C14: the swapped call compare(new, old) has as many results as compare(old,
\* new), for the same Row Keys; a row Added in one is Removed in the other and
\* a row Changed in one is Changed in the other.
C14_SwapSymmetry ==
    pc = "done" =>
        /\ Len(SwappedResults) = Len(results)
        /\ RowKeysOf(SwappedResults) = RowKeysOf(results)
        /\ \A j \in DOMAIN results : \A a \in DOMAIN SwappedResults :
            DictGet(SwappedResults[a], T_RowKey) = DictGet(results[j], T_RowKey)
                => DictGet(SwappedResults[a], T_Status)
                       = SwappedStatus(DictGet(results[j], T_Status))

\* a Changed row, by a column only the new row has, beside a Removed row
C14_Witness ==
    /\ pc = "done"
    /\ \E j, a \in DOMAIN results :
        /\ FieldIs(results[j], T_Status, StrVal(CHANGED))
        /\ FieldIs(results[a], T_Status, StrVal(REMOVED))
        /\ \E k \in DOMAIN old_rows \cap DOMAIN new_rows :
            /\ DictGet(results[j], T_RowKey) = StrVal(k)
            /\ T_Age \in DOMAIN new_rows[k].row_data \ DOMAIN old_rows[k].row_data
    /\ SwappedResults # results

\* the Changed results of the call
ChangedResults ==
    {j \in DOMAIN results : FieldIs(results[j], T_Status, StrVal(CHANGED))}

\* the key of result j
KeyOfResult(j) == Str(DictGet(results[j], T_RowKey))

\* C15: in every Changed result a non-key column that only one of the two rows
\* has appears with both its (Old) and its (New) field: the side that has the
\* column carries its value, the side that lacks it the empty text.
C15_OneSidedColumn ==
    pc = "done" =>
        \A j \in ChangedResults :
            LET old_row == old_rows[KeyOfResult(j)].row_data
                new_row == new_rows[KeyOfResult(j)].row_data
            IN  /\ \A c \in (DOMAIN old_row \ DOMAIN new_row) \ Range(key_columns) :
                    /\ FieldIs(results[j], OldField(c), old_row[c])
                    /\ FieldIs(results[j], NewField(c), StrVal(EmptyText))
                /\ \A c \in (DOMAIN new_row \ DOMAIN old_row) \ Range(key_columns) :
                    /\ FieldIs(results[j], OldField(c), StrVal(EmptyText))
                    /\ FieldIs(results[j], NewField(c), new_row[c])

\* a Changed result whose rows each have a column the other lacks
C15_Witness ==
    /\ pc = "done"
    /\ \E j \in ChangedResults :
        /\ T_Age \in DOMAIN old_rows[KeyOfResult(j)].row_data
        /\ T_Age \notin DOMAIN new_rows[KeyOfResult(j)].row_data
        /\ T_Name \in DOMAIN new_rows[KeyOfResult(j)].row_data
        /\ T_Name \notin DOMAIN old_rows[KeyOfResult(j)].row_data

\* the canonical non-key columns whose values are equal as text in the two
\* rows of result j
EqualColumns(j) == CanonicalColumns \ Differing(KeyOfResult(j))

\* C16 as stated: a Changed result has no (Old) and no (New) field for a
\* non-key column whose old and new values are equal as text.
C16_EqualColumnOmitted ==
    pc = "done" =>
        \A j \in ChangedResults : \A c \in EqualColumns(j) :
            /\ ~DictHas(results[j], OldField(c))
            /\ ~DictHas(results[j], NewField(c))

\* the columns that occur in the duplicate list dups and in no row of the lookup
OnlyInDuplicates(dups, rows) ==
    UNION {DOMAIN dups[j] : j \in DOMAIN dups} \ LookupColumns(rows)

\* C17: the observed columns of a dataset are exactly the columns of the rows
\* left in its lookup: a column that occurs only in rows of the duplicate list
\* (the first-seen row of a colliding key too) is not observed, and no result
\* has a field for it.
C17_ObservedColumns ==
    pc \in {"diff", "done"} =>
        /\ old_columns = LookupColumns(old_rows)
        /\ new_columns = LookupColumns(new_rows)
        /\ old_columns \cap OnlyInDuplicates(old_duplicates, old_rows) = {}
        /\ new_columns \cap OnlyInDuplicates(new_duplicates, new_rows) = {}
        /\ \A j \in DOMAIN results :
            \A c \in (OnlyInDuplicates(old_duplicates, old_rows)
                        \cup OnlyInDuplicates(new_duplicates, new_rows))
                     \ (LookupColumns(old_rows) \cup LookupColumns(new_rows)) :
                /\ ~DictHas(results[j], OldField(c))
                /\ ~DictHas(results[j], NewField(c))

\* the rows of the dataset being indexed that have been processed
Processed == SubSeq(data, 1, i - 1)

\* the RowKeys of the processed rows
ProcessedKeys == {GenerateRowKey(Processed[j]) : j \in DOMAIN Processed}

\* C18: with fail_on_duplicate_keys false, after any prefix of a dataset the
\* lookup holds no flagged key: it holds, under its own key, the row of every
\* key the prefix has once, and every key the prefix has twice or more is
\* flagged and out of the lookup, however many rows of it have followed.
C18_FlaggedKeysStayOut ==
    (pc = "index" /\ ~fail_on_duplicate_keys) =>
        /\ DOMAIN lookup \cap duplicate_keys = {}
        /\ DOMAIN lookup = {k \in ProcessedKeys : KeyCount(Processed, k) = 1}
        /\ duplicate_keys = {k \in ProcessedKeys : KeyCount(Processed, k) >= 2}
        /\ \A k \in DOMAIN lookup :
            /\ GenerateRowKey(lookup[k].row_data) = k
            /\ lookup[k].row_data \in Range(Processed)

\* a key met a third and a fourth time after its collision
C18_Witness ==
    /\ pc = "index"
    /\ ~fail_on_duplicate_keys
    /\ i = 5
    /\ KeyCount(Processed, GenerateRowKey(Processed[1])) = 4
    /\ Processed[3] # Processed[1]
    /\ lookup = EmptyLookup

\* C19: the duplicates output is the duplicate list of the old dataset followed
\* by the duplicate list of the new dataset, and its rows are rows of the
\* inputs as given, with all their columns (the key columns too).
C19_OldThenNew ==
    pc = "done" =>
        /\ all_duplicates = CollisionOrder(old_data, 1) \o CollisionOrder(new_data, 1)
        /\ all_duplicates = old_duplicates \o new_duplicates
        /\ \A j \in DOMAIN all_duplicates :
            /\ j <= Len(old_duplicates) => all_duplicates[j] \in Range(old_data)
            /\ j > Len(old_duplicates) => all_duplicates[j] \in Range(new_data)
            /\ Range(key_columns) \subseteq DOMAIN all_duplicates[j]

\* both datasets have a collision, on rows of different content
C19_Witness ==
    /\ pc = "done"
    /\ old_duplicates # <<>>
    /\ new_duplicates # <<>>
    /\ Range(old_duplicates) \cap Range(new_duplicates) = {}
    /\ Len(all_duplicates) = 4

\* the two rows differ, as text, in the value of some key column
DifferInKey(r1, r2) ==
    \E kc \in Range(key_columns) : Str(r1[kc]) # Str(r2[kc])

\* C20: no result has an (Old) or a (New) field of a key column or lists a key
\* column in Changed Columns, and no Changed result is made of two rows that
\* differ in the value of a key column.
C20_KeyColumnsExcluded ==
    pc = "done" =>
        /\ \A j \in DOMAIN results :
            /\ \A kc \in Range(key_columns) :
                /\ ~DictHas(results[j], OldField(kc))
                /\ ~DictHas(results[j], NewField(kc))
            /\ \E S \in SUBSET CanonicalColumns :
                FieldIs(results[j], T_ChangedColumns,
                        StrVal(Join(InOrder(S), T_CommaSpace)))
        /\ \A j \in ChangedResults :
            ~DifferInKey(old_rows[KeyOfResult(j)].row_data,
                         new_rows[KeyOfResult(j)].row_data)

\* the columns of the two value maps of the formatter call, in lexicographic order
CallColumns ==
    InOrder(DOMAIN format_call.old_values \cup DOMAIN format_call.new_values)

\* the value of column c in the map m, the empty text when m lacks c
ValueOrEmpty(m, c) == IF c \in DOMAIN m THEN m[c] ELSE StrVal(EmptyText)

\* C21: the formatted row is the fields "Row Key", "Status" and "Changed
\* Columns" (the changed columns joined with ", "), in this order, followed,
\* for each column of either value map in lexicographic order, by its (Old)
\* and then its (New) field, a map that lacks the column giving the empty text.
C21_Format ==
    formatted # <<>> =>
        /\ Len(formatted) = 3 + 2 * Len(CallColumns)
        /\ formatted[1] = <<T_RowKey, StrVal(format_call.row_key)>>
        /\ formatted[2] = <<T_Status, StrVal(format_call.status)>>
        /\ formatted[3] = <<T_ChangedColumns,
                            StrVal(Join(format_call.changed_columns, T_CommaSpace))>>
        /\ \A n \in DOMAIN CallColumns :
            /\ formatted[2 + 2 * n] =
                   <<CallColumns[n] \o T_OldSuffix,
                     ValueOrEmpty(format_call.old_values, CallColumns[n])>>
            /\ formatted[3 + 2 * n] =
                   <<CallColumns[n] \o T_NewSuffix,
                     ValueOrEmpty(format_call.new_values, CallColumns[n])>>

\* a row formatted from maps that each have a column the other lacks, with two
\* changed columns
C21_Witness ==
    /\ formatted # <<>>
    /\ Len(format_call.changed_columns) = 2
    /\ DOMAIN format_call.old_values = {T_Name, T_ID}
    /\ DOMAIN format_call.new_values = {T_Age, T_ID}
    /\ format_call.new_values[T_Age] = StrVal(T_6)

\* the text of the key values of row, in key_columns order, with "|" between
RECURSIVE KeyText(_, _)
KeyText(row, n) ==
    IF n = 0 THEN EmptyText
    ELSE IF n = 1 THEN Str(row[key_columns[1]])
    ELSE KeyText(row, n - 1) \o <<124>> \o Str(row[key_columns[n]])

\* C22: the RowKey under which a row is indexed, and which its result carries
\* as Row Key, is the text of its key values joined with "|" in the order of
\* the configured key columns.
C22_RowKey ==
    /\ \A k \in DOMAIN lookup : k = KeyText(lookup[k].row_data, Len(key_columns))
    /\ pc = "done" =>
        /\ \A k \in DOMAIN old_rows :
            k = KeyText(old_rows[k].row_data, Len(key_columns))
        /\ \A k \in DOMAIN new_rows :
            k = KeyText(new_rows[k].row_data, Len(key_columns))
        /\ \A j \in DOMAIN results :
            \E r \in Range(old_data) \cup Range(new_data) :
                /\ Keyed(r)
                /\ results[j][1] = <<T_RowKey, StrVal(KeyText(r, Len(key_columns)))>>

\* key columns [Name, ID]: the row with ID 12 and Name A has the Row Key "A|12"
C22_Witness ==
    /\ pc = "done"
    /\ key_columns = <<T_Name, T_ID>>
    /\ \E j \in DOMAIN results :
        FieldIs(results[j], T_RowKey, StrVal(<<65, 124, 49, 50>>))
    /\ \E r \in Range(old_data) : r[T_ID] = StrVal(T_12) /\ r[T_Name] = StrVal(T_A)

\* the two rows have the same text in every key column
SameKeyValues(r1, r2) ==
    \A kc \in Range(key_columns) : Str(r1[kc]) = Str(r2[kc])

\* the rows of both inputs that have every key column
KeyedRows == {r \in Range(old_data) \cup Range(new_data) : Keyed(r)}

\* C24: two rows get the same RowKey exactly when they have the same text in
\* every key column, whatever the key values are (values that hold "|" too).
C24_RowKeyUnique ==
    pc \in {"index", "diff", "done"} =>
        \A r1, r2 \in KeyedRows :
            (GenerateRowKey(r1) = GenerateRowKey(r2)) <=> SameKeyValues(r1, r2)

\* the config leaves fail_on_duplicate_keys out
FlagNotSet == "fail_on_duplicate_keys" \notin DOMAIN config

\* C25: a comparator built from a config without fail_on_duplicate_keys has
\* the flag true: no duplicate is ever collected, no collision is passed over,
\* and compare fails with the duplicate-key error at the first row whose
\* RowKey an earlier row of its dataset has.
C25_DefaultFails ==
    FlagNotSet =>
        /\ fail_on_duplicate_keys
        /\ duplicates = <<>> /\ duplicate_keys = {}
        /\ old_duplicates = <<>> /\ new_duplicates = <<>> /\ all_duplicates = <<>>
        /\ pc = "index" => \A a \in 1..(i - 1) : ~CollisionAt(data, a)
        /\ (pc = "error" /\ error.kind # "missing_key_columns") =>
            /\ i \in DOMAIN data
            /\ \A a \in 1..(i - 1) : ~CollisionAt(data, a)
            /\ CollisionAt(data, i) <=> error.kind = "duplicate_row_key"
            /\ CollisionAt(data, i) => error = DuplicateRowKey(GenerateRowKey(data[i]))
        /\ pc = "done" => ~HasCollision(old_data) /\ ~HasCollision(new_data)

\* no flag in the config and a collision in the second dataset: the error
C25_Witness ==
    /\ FlagNotSet
    /\ pc = "error"
    /\ error.kind = "duplicate_row_key"
    /\ side = "new"
    /\ i = 2
    /\ new_data[1] # new_data[2]
    /\ old_data # <<>>

\* the RowKeys of the rows of d
KeysOf(d) == {GenerateRowKey(d[j]) : j \in DOMAIN d}

\* the results with the Row Key k and the given status
ResultsWith(k, status) ==
    {j \in ResultsAt(k) : FieldIs(results[j], T_Status, StrVal(status))}

\* C26: with fail_on_duplicate_keys false, a RowKey that one dataset has twice
\* or more and the other dataset once has one result: Added when the old
\* dataset has the duplicates, Removed when the new one has them; the key is
\* then both in the results and in the duplicates output.
C26_DuplicatedSideAbsent ==
    (pc = "done" /\ ~fail_on_duplicate_keys) =>
        /\ \A k \in KeysOf(new_data) :
            (KeyCount(old_data, k) >= 2 /\ KeyCount(new_data, k) = 1) =>
                /\ Cardinality(ResultsAt(k)) = 1
                /\ Cardinality(ResultsWith(k, ADDED)) = 1
                /\ k \notin DOMAIN old_rows
                /\ k \in KeysOf(all_duplicates)
        /\ \A k \in KeysOf(old_data) :
            (KeyCount(new_data, k) >= 2 /\ KeyCount(old_data, k) = 1) =>
                /\ Cardinality(ResultsAt(k)) = 1
                /\ Cardinality(ResultsWith(k, REMOVED)) = 1
                /\ k \notin DOMAIN new_rows
                /\ k \in KeysOf(all_duplicates)

\* a key three times in the old dataset and once, with the first old row's
\* content, in the new one: one Added result
C26_Witness ==
    /\ pc = "done"
    /\ ~fail_on_duplicate_keys
    /\ Len(old_data) = 3 /\ Len(new_data) = 1
    /\ KeyCount(old_data, GenerateRowKey(new_data[1])) = 3
    /\ old_data[1] = new_data[1]
    /\ Len(results) = 1
    /\ FieldIs(results[1], T_Status, StrVal(ADDED))

\* the fields every result of the call has
CanonicalFields ==
    {T_RowKey, T_Status, T_ChangedColumns}
        \cup {c \o T_OldSuffix : c \in CanonicalColumns}
        \cup {c \o T_NewSuffix : c \in CanonicalColumns}

\* C27: all results of one call have the same fields: "Row Key", "Status",
\* "Changed Columns" and the (Old) and (New) field of every canonical non-key
\* column of the call, each once, whatever the status of the result and the
\* columns of its rows.
C27_SameFields ==
    pc = "done" =>
        \A j \in DOMAIN results :
            /\ Range(DictFields(results[j])) = CanonicalFields
            /\ Len(results[j]) = Cardinality(CanonicalFields)
            /\ DictFields(results[j]) = DictFields(results[1])

\* a Changed and a Removed result, of rows with different columns, and a
\* canonical column neither row of the Changed result has
C27_Witness ==
    /\ pc = "done"
    /\ Len(results) = 2
    /\ \E j \in ChangedResults :
        /\ T_Name \in CanonicalColumns
        /\ T_Name \notin DOMAIN old_rows[KeyOfResult(j)].row_data
        /\ T_Name \notin DOMAIN new_rows[KeyOfResult(j)].row_data
    /\ \E j \in DOMAIN results : FieldIs(results[j], T_Status, StrVal(REMOVED))

\* what the call of the state has given back
Given == Outcome(results, all_duplicates, error)

\* the steps of the state and the function Compare give back the same
AgreesWithCompare ==
    pc \in {"done", "error"} => Given = Compare(old_data, new_data)

\* the rearrangements of the rows of d
Rearranged(d) ==
    {[j \in DOMAIN d |-> d[p[j]]] :
        p \in {q \in [DOMAIN d -> DOMAIN d] : \A a, b \in DOMAIN d : a # b => q[a] # q[b]}}

\* C28: when every row has its key columns and every RowKey is unique within
\* its dataset, compare on any rearrangement of the rows of old and of new
\* returns the results list compare has returned: the same rows, in the same
\* order, with the same fields and values.
C28_OrderIndependent ==
    (pc = "done" /\ UniqueKeyed(old_data) /\ UniqueKeyed(new_data)) =>
        \A old \in Rearranged(old_data), new \in Rearranged(new_data) :
            /\ Compare(old, new).error = NoError
            /\ Compare(old, new).results = results

\* three rows of one dataset, with three sets of columns and keys out of order
C28_Witness ==
    /\ pc = "done"
    /\ UniqueKeyed(old_data) /\ UniqueKeyed(new_data)
    /\ Len(new_data) = 2 /\ Len(old_data) = 1
    /\ DOMAIN new_data[1] # DOMAIN new_data[2]
    /\ LexLess(GenerateRowKey(new_data[2]), GenerateRowKey(new_data[1]))
    /\ Len(results) = 2
    /\ Cardinality(Rearranged(new_data)) = 2

\* row with the column c, absent, set to the empty text, or with the column c,
\* holding the empty text, taken out; row itself in any other case
WithOrWithoutEmpty(row, c) ==
    IF c \notin DOMAIN row
    THEN [d \in DOMAIN row \cup {c} |-> IF d = c THEN StrVal(EmptyText) ELSE row[d]]
    ELSE IF row[c] = StrVal(EmptyText)
    THEN [d \in DOMAIN row \ {c} |-> row[d]]
    ELSE row

\* the dataset d with the column c of its row j so replaced
Replaced(d, j, c) == [d EXCEPT ![j] = WithOrWithoutEmpty(d[j], c)]

\* the status and the Changed Columns of the results rs that have the Row Key k
Reported(rs, k) ==
    {<<DictGet(rs[j], T_Status), DictGet(rs[j], T_ChangedColumns)>> :
        j \in {a \in DOMAIN rs : DictGet(rs[a], T_RowKey) = StrVal(k)}}

\* C29: for a RowKey of both lookups, putting an empty-text entry in the place
\* of a missing non-key column of either row, or taking such an entry out,
\* changes neither whether compare returns a result for the key nor the
\* Changed Columns of that result.
C29_MissingIsEmpty ==
    pc = "done" =>
        \A k \in DOMAIN old_rows \cap DOMAIN new_rows :
            \A c \in {T_Age, T_Name} \ Range(key_columns) :
                /\ \A j \in DOMAIN old_data :
                    GenerateRowKey(old_data[j]) = k =>
                        Reported(Compare(Replaced(old_data, j, c), new_data).results, k)
                            = Reported(results, k)
                /\ \A j \in DOMAIN new_data :
                    GenerateRowKey(new_data[j]) = k =>
                        Reported(Compare(old_data, Replaced(new_data, j, c)).results, k)
                            = Reported(results, k)

\* a key whose old row lacks the column Age and whose new row has it empty: no
\* result, with the column put in or taken out
C29_Witness ==
    /\ pc = "done"
    /\ \E k \in DOMAIN old_rows \cap DOMAIN new_rows :
        /\ T_Age \notin DOMAIN old_rows[k].row_data
        /\ T_Age \in DOMAIN new_rows[k].row_data
        /\ new_rows[k].row_data[T_Age] = StrVal(EmptyText)
        /\ old_rows[k].row_digest # new_rows[k].row_digest
        /\ Reported(results, k) = {}
        /\ \E j \in DOMAIN old_data :
            /\ GenerateRowKey(old_data[j]) = k
            /\ Replaced(old_data, j, T_Age) # old_data

\* the second call has given back
OtherGiven == other.outcome

\* C23: a step of either of two interleaved calls of compare leaves the
\* comparator's config and attributes and the datasets of both calls
\* unchanged, and each call, however the two are interleaved, gives back what
\* compare gives back on its own datasets alone.
C23_NoSharedState ==
    /\ [](/\ pc \in {"done", "error"} => Given = Compare(old_data, new_data)
          /\ other.pc \in {"done", "error"} =>
                OtherGiven = Compare(other.old_data, other.new_data))
    /\ [][/\ UNCHANGED <<config, key_columns, fail_on_duplicate_keys>>
          /\ UNCHANGED <<old_data, new_data>>
          /\ other'.old_data = other.old_data
          /\ other'.new_data = other.new_data]_vars

\* the second call has indexed and returned while the first is in the middle
\* of its index loop with a row in its lookup, and the calls have rows of one key
C23_Witness ==
    /\ pc = "index" /\ side = "old" /\ i = 2
    /\ DOMAIN lookup # {}
    /\ other.pc = "done"
    /\ other.outcome.results # <<>>
    /\ Len(old_data) = 2
    /\ other.old_data # <<>>
    /\ GenerateRowKey(other.old_data[1]) \in DOMAIN lookup

\* the fields of a file's content hold values load_config accepts
ValidFields(config_data) ==
    /\ "key_columns" \in DOMAIN config_data
    /\ config_data.key_columns.type = "list"
    /\ config_data.key_columns.items # <<>>
    /\ "excluded_columns" \in DOMAIN config_data =>
            config_data.excluded_columns.type = "list"
    /\ "schema_mismatch_behavior" \in DOMAIN config_data =>
            config_data.schema_mismatch_behavior \in valid_behaviors
    /\ "fail_on_duplicate_keys" \in DOMAIN config_data =>
            config_data.fail_on_duplicate_keys.type = "bool"

\* the value of include_unchanged_columns a file's content asks for
AskedIncludeUnchanged(config_data) ==
    IF "include_unchanged_columns" \in DOMAIN config_data
    THEN config_data.include_unchanged_columns
    ELSE JBool(FALSE)

\* C30: a call of load_config on a file whose fields are valid, with or
\* without include_unchanged_columns, gives back a configuration whose
\* attribute include_unchanged_columns is the value of the file, or False
\* when the file has none.
C30_IncludeUnchangedColumns ==
    [][(/\ loaded' # loaded
        /\ config_file' = config_file
        /\ config_file # NoFile
        /\ config_file # Malformed
        /\ ValidFields(config_file.config_data))
           => /\ loaded'.kind = "config"
              /\ "include_unchanged_columns" \in DOMAIN loaded'
              /\ loaded'.include_unchanged_columns
                    = AskedIncludeUnchanged(config_file.config_data)]_vars

====
